---- MODULE Spec2Model ----
(***************************************************************************)
(* Model of src/src/main.rs: `Number`, a sign-magnitude whole number with  *)
(* little-endian limbs, its normalizer, its comparisons and the            *)
(* carry/borrow loop of `add` (which `sub` reuses through `neg`).          *)
(*                                                                         *)
(* A limb is a u64 in the source.  The model keeps the limb arithmetic     *)
(* modular (carry out of / borrow into a limb) over a limb of `Base`       *)
(* values, so that every carry and borrow pattern occurs within the        *)
(* bounds.                                                                 *)
(***************************************************************************)
EXTENDS Integers, Sequences, FiniteSets, TLC

\* ------------------------------------------------------------------ bounds
\* number of values of one limb (2^64 in the source)
Base == 3
\* longest digit vector an operand handed to an operation holds
MaxLen == 2
\* limbs the digit vector can grow to before `Vec::push` fails to allocate
MaxDigits == MaxLen + 3

Limbs == 0 .. (Base - 1)

\* raw digit vectors a caller can hand to Number::new (empty one included)
RawDigits == UNION { [1 .. n -> Limbs] : n \in 0 .. MaxLen }

Max(x, y) == IF x >= y THEN x ELSE y

\* ------------------------------------------------------- struct and values
\* struct Number { positive, digits }
Number(positive, digits) == [positive |-> positive, digits |-> digits]

\* placeholder of a result slot that holds no Number
NoNumber == Number(TRUE, <<>>)

\* ---------------------------------------------------------------- Ordering
Reverse(o) ==
    CASE o = "Less" -> "Greater"
      [] o = "Greater" -> "Less"
      [] OTHER -> o

\* Ord::cmp on two integers (u64 limbs, usize lengths)
IntCmp(x, y) ==
    IF x < y THEN "Less" ELSE IF x > y THEN "Greater" ELSE "Equal"

\* slice.iter().rev()
Rev(s) == [k \in 1 .. Len(s) |-> s[Len(s) + 1 - k]]

\* Iterator::cmp: lexicographic, a proper prefix is Less
RECURSIVE IterCmp(_, _)
IterCmp(s, t) ==
    IF s = <<>> THEN (IF t = <<>> THEN "Equal" ELSE "Less")
    ELSE IF t = <<>> THEN "Greater"
    ELSE IF Head(s) # Head(t) THEN IntCmp(Head(s), Head(t))
    ELSE IterCmp(Tail(s), Tail(t))

\* Number::cmp_abs
cmp_abs(x, y) == IterCmp(Rev(x.digits), Rev(y.digits))

\* .iter().rev().take_while(|d| d == 0).count()
RECURSIVE num_leading_zeroes(_)
num_leading_zeroes(d) ==
    IF d = <<>> THEN 0
    ELSE IF d[Len(d)] # 0 THEN 0
    ELSE 1 + num_leading_zeroes(SubSeq(d, 1, Len(d) - 1))

\* normalize that leaves the sign of a zero as it finds it
normalize_keeps_sign(n) ==
    IF n.digits = <<>>
    THEN Number(TRUE, <<0>>)
    ELSE LET kept == Max(1, Len(n.digits) - num_leading_zeroes(n.digits))
         IN  Number(n.positive, SubSeq(n.digits, 1, kept))

\* Number::normalize
normalize(n) ==
    IF n.digits = <<>>
    THEN Number(TRUE, <<0>>)
    ELSE LET kept == Max(1, Len(n.digits) - num_leading_zeroes(n.digits))
             d    == SubSeq(n.digits, 1, kept)
         IN  Number(IF Len(d) = 1 /\ d[1] = 0 THEN TRUE ELSE n.positive, d)

\* new that stores the raw pair as it is
new_unnormalized(positive, digits) == Number(positive, digits)

\* Number::new
new(positive, digits) == normalize(Number(positive, digits))

\* Neg::neg
neg(n) == normalize(Number(~n.positive, n.digits))

\* cmp that forgets to flip the limb comparison of two negatives
cmp_no_flip(x, y) ==
    IF x.positive /\ ~y.positive THEN "Greater"
    ELSE IF ~x.positive /\ y.positive THEN "Less"
    ELSE LET byLen == IntCmp(Len(x.digits), Len(y.digits))
         IN  IF byLen = "Equal"
             THEN cmp_abs(x, y)
             ELSE (IF x.positive THEN byLen ELSE Reverse(byLen))

\* Ord::cmp
cmp(x, y) ==
    IF x.positive /\ ~y.positive THEN "Greater"
    ELSE IF ~x.positive /\ y.positive THEN "Less"
    ELSE LET byLen == IntCmp(Len(x.digits), Len(y.digits))
         IN  IF byLen = "Equal"
             THEN (IF x.positive THEN cmp_abs(x, y) ELSE Reverse(cmp_abs(x, y)))
             ELSE (IF x.positive THEN byLen ELSE Reverse(byLen))

\* ------------------------------------------------------------- limb kernels
\* u64::carrying_add
carrying_add(x, y, c) ==
    LET s == x + y + (IF c THEN 1 ELSE 0)
    IN  [digit |-> s % Base, carry |-> s >= Base]

\* u64::borrowing_sub
borrowing_sub(x, y, c) ==
    LET s == x - y - (IF c THEN 1 ELSE 0)
    IN  [digit |-> s % Base, carry |-> s < 0]

\* ------------------------------------------------------------ Add::add parts
\* operand selection that always takes self as the bigger one
SelectOperands_self_first(slf, r) == [bigger |-> slf, smaller |-> r]

\* let (mut bigger, smaller) = if self.cmp_abs(&rhs) == Greater {..} else {..}
SelectOperands(slf, r) ==
    IF cmp_abs(slf, r) = "Greater"
    THEN [bigger |-> slf, smaller |-> r]
    ELSE [bigger |-> r, smaller |-> slf]

\* kernel selection that ignores the signs
SelectOp_always_add(big, small) == "carrying_add"

\* let op = match (bigger.positive, smaller.positive) { .. }
SelectOp(big, small) ==
    IF big.positive = small.positive THEN "carrying_add" ELSE "borrowing_sub"

\* op(*digit_bigger, digit_smaller, carry)
ApplyOp(o, x, y, c) ==
    IF o = "carrying_add" THEN carrying_add(x, y, c) ELSE borrowing_sub(x, y, c)

\* while i < smaller.digits.len() || carry
LoopCond(small, c, k) == k < Len(small.digits) \/ c

\* the iteration has to push a limb and the vector cannot grow any more
PushFails(big, k) == k = Len(big.digits) /\ Len(big.digits) >= MaxDigits

\* one iteration of the loop body; k is the 0-based index i
LoopBody(big, small, o, c, k) ==
    LET d1 == IF k = Len(big.digits) THEN Append(big.digits, 0) ELSE big.digits
        digit_smaller == IF k < Len(small.digits) THEN small.digits[k + 1] ELSE 0
        r  == ApplyOp(o, d1[k + 1], digit_smaller, c)
    IN  [bigger |-> Number(big.positive, [d1 EXCEPT ![k + 1] = r.digit]),
         carry  |-> r.carry,
         i      |-> k + 1]

\* the loop run to its end: the returned Number, or the failed allocation
RECURSIVE RunLoop(_, _, _, _, _)
RunLoop(big, small, o, c, k) ==
    IF ~LoopCond(small, c, k) THEN [pc |-> "done", res |-> normalize(big)]
    ELSE IF PushFails(big, k) THEN [pc |-> "oom", res |-> NoNumber]
    ELSE LET n == LoopBody(big, small, o, c, k)
         IN  RunLoop(n.bigger, small, o, n.carry, n.i)

\* Add::add as a function of its operands
add(slf, r) ==
    LET s == SelectOperands(slf, r)
    IN  RunLoop(s.bigger, s.smaller, SelectOp(s.bigger, s.smaller), FALSE, 0)

\* ------------------------------------------------------------------- state
VARIABLES
    a, b,        \* the caller's two Numbers
    pc,          \* "idle", "loop" (inside add's while), "done", "oom"
    call,        \* the operation in flight or just returned
    raw,         \* the raw (positive, digits) last handed to Number::new
    self, rhs,   \* add's operands
    bigger, smaller, op, carry, i,   \* add's locals
    res,         \* the Number returned
    ord          \* the Ordering returned

vars == <<a, b, pc, call, raw, self, rhs, bigger, smaller, op, carry, i, res, ord>>

addLocals == <<self, rhs, bigger, smaller, op, carry, i>>

Init ==
    /\ a = new(TRUE, <<0>>)
    /\ b = new(TRUE, <<0>>)
    /\ pc = "idle"
    /\ call = "none"
    /\ raw = NoNumber
    /\ self = NoNumber
    /\ rhs = NoNumber
    /\ bigger = NoNumber
    /\ smaller = NoNumber
    /\ op = "none"
    /\ carry = FALSE
    /\ i = 0
    /\ res = NoNumber
    /\ ord = "none"

\* let a = Number::new(positive, digits)
NewA ==
    /\ pc = "idle"
    /\ \E positive \in BOOLEAN, digits \in RawDigits :
          /\ raw' = Number(positive, digits)
          /\ res' = new(positive, digits)
          /\ a' = new(positive, digits)
    /\ pc' = "done"
    /\ call' = "new"
    /\ UNCHANGED <<b, ord>>
    /\ UNCHANGED addLocals

\* let b = Number::new(positive, digits)
NewB ==
    /\ pc = "idle"
    /\ \E positive \in BOOLEAN, digits \in RawDigits :
          /\ raw' = Number(positive, digits)
          /\ res' = new(positive, digits)
          /\ b' = new(positive, digits)
    /\ pc' = "done"
    /\ call' = "new"
    /\ UNCHANGED <<a, ord>>
    /\ UNCHANGED addLocals

\* -x for one of the caller's Numbers
Neg ==
    /\ pc = "idle"
    /\ \E x \in {a, b} :
          /\ self' = x
          /\ res' = neg(x)
    /\ pc' = "done"
    /\ call' = "neg"
    /\ UNCHANGED <<a, b, raw, rhs, bigger, smaller, op, carry, i, ord>>

\* a.cmp(&b)
Cmp ==
    /\ pc = "idle"
    /\ ord' = cmp(a, b)
    /\ pc' = "done"
    /\ call' = "cmp"
    /\ UNCHANGED <<a, b, raw, res>>
    /\ UNCHANGED addLocals

\* a.cmp_abs(&b)
CmpAbs ==
    /\ pc = "idle"
    /\ ord' = cmp_abs(a, b)
    /\ pc' = "done"
    /\ call' = "cmp_abs"
    /\ UNCHANGED <<a, b, raw, res>>
    /\ UNCHANGED addLocals

\* entry of Add::add up to the while loop
Enter(slf, r) ==
    LET s == SelectOperands(slf, r)
    IN  /\ self' = slf
        /\ rhs' = r
        /\ bigger' = s.bigger
        /\ smaller' = s.smaller
        /\ op' = SelectOp(s.bigger, s.smaller)
        /\ carry' = FALSE
        /\ i' = 0
        /\ pc' = "loop"

\* a + b
AddBegin ==
    /\ pc = "idle"
    /\ Enter(a, b)
    /\ call' = "add"
    /\ UNCHANGED <<a, b, raw, res, ord>>

\* a - b, which is a + -b
SubBegin ==
    /\ pc = "idle"
    /\ Enter(a, neg(b))
    /\ call' = "sub"
    /\ UNCHANGED <<a, b, raw, res, ord>>

\* one iteration of add's while loop
AddStep ==
    /\ pc = "loop"
    /\ LoopCond(smaller, carry, i)
    /\ ~PushFails(bigger, i)
    /\ LET n == LoopBody(bigger, smaller, op, carry, i)
       IN  /\ bigger' = n.bigger
           /\ carry' = n.carry
           /\ i' = n.i
    /\ UNCHANGED <<a, b, pc, call, raw, self, rhs, smaller, op, res, ord>>

\* bigger.digits.push(0) cannot allocate: the process aborts
AddOom ==
    /\ pc = "loop"
    /\ LoopCond(smaller, carry, i)
    /\ PushFails(bigger, i)
    /\ pc' = "oom"
    /\ UNCHANGED <<a, b, call, raw, res, ord>>
    /\ UNCHANGED addLocals

\* the loop exits: bigger.normalize() is returned
AddEnd ==
    /\ pc = "loop"
    /\ ~LoopCond(smaller, carry, i)
    /\ res' = normalize(bigger)
    /\ pc' = "done"
    /\ UNCHANGED <<a, b, call, raw, ord>>
    /\ UNCHANGED addLocals

ClearCall ==
    /\ pc' = "idle"
    /\ call' = "none"
    /\ raw' = NoNumber
    /\ self' = NoNumber
    /\ rhs' = NoNumber
    /\ bigger' = NoNumber
    /\ smaller' = NoNumber
    /\ op' = "none"
    /\ carry' = FALSE
    /\ i' = 0
    /\ res' = NoNumber
    /\ ord' = "none"

\* the caller keeps the returned Number as its a
KeepA ==
    /\ pc = "done"
    /\ call \in {"neg", "add", "sub"}
    /\ Len(res.digits) <= MaxLen
    /\ a' = res
    /\ b' = b
    /\ ClearCall

\* the caller keeps the returned Number as its b
KeepB ==
    /\ pc = "done"
    /\ call \in {"neg", "add", "sub"}
    /\ Len(res.digits) <= MaxLen
    /\ a' = a
    /\ b' = res
    /\ ClearCall

\* the caller drops the returned value
Drop ==
    /\ pc = "done"
    /\ UNCHANGED <<a, b>>
    /\ ClearCall

Next ==
    \/ NewA
    \/ NewB
    \/ Neg
    \/ Cmp
    \/ CmpAbs
    \/ AddBegin
    \/ SubBegin
    \/ AddStep
    \/ AddOom
    \/ AddEnd
    \/ KeepA
    \/ KeepB
    \/ Drop

Spec == Init /\ [][Next]_vars

\* a sequential program keeps running: the loop takes its next step
FairSpec == Spec /\ WF_vars(AddStep) /\ WF_vars(AddEnd) /\ WF_vars(AddOom)

\* ------------------------------------------------------------ denotations
\* the natural number a little-endian digit vector denotes
RECURSIVE Mag(_)
Mag(d) == IF d = <<>> THEN 0 ELSE Head(d) + Base * Mag(Tail(d))

\* the integer a (positive, digits) pair denotes
IntOf(n) == IF n.positive THEN Mag(n.digits) ELSE 0 - Mag(n.digits)

\* the canonical form: non-empty, no most-significant zero limb unless it is
\* the single limb [0], and a zero is positive
IsNormalized(n) ==
    /\ Len(n.digits) >= 1
    /\ (n.digits[Len(n.digits)] = 0 => Len(n.digits) = 1)
    /\ (n.digits = <<0>> => n.positive)

Returned == pc \in {"done", "oom"}

\* ------------------------------------------------------------------ claims

\* C1: for all normalized a and b, a + b returns the normalized Number that
\* denotes the mathematical sum of a and b.
C1_AddReturnsSum ==
    (call = "add" /\ Returned) =>
        /\ pc = "done"
        /\ IsNormalized(res)
        /\ IntOf(res) = IntOf(self) + IntOf(rhs)

\* C2: add is total: once inside the carry/borrow loop, the loop condition
\* eventually becomes false and a result is returned.
C2_AddLoopExits == (pc = "loop") ~> (pc = "done")

\* Why the loop of C2 cannot exit: once every limb of both operands has been
\* processed and a borrow is pending, the next iteration computes 0 - 0 - 1
\* and leaves a borrow pending again, whatever the length reached.
BorrowStaysPending ==
    [][(/\ pc = "loop" /\ pc' = "loop"
        /\ op = "borrowing_sub" /\ carry
        /\ i >= Len(smaller.digits) /\ i >= Len(bigger.digits)) => carry']_vars

\* C3: for all normalized a and b, a - b (computed as a + -b) returns the
\* normalized Number that denotes the mathematical difference of a and b.
C3_SubReturnsDifference ==
    (call = "sub" /\ Returned) =>
        /\ pc = "done"
        /\ rhs = neg(b)
        /\ IsNormalized(res)
        /\ IntOf(res) = IntOf(a) - IntOf(b)

\* C4: cmp agrees with the order of the integers the two Numbers denote
\* (so exactly one of <, =, > holds, and cmp(b, a) is the reverse of
\* cmp(a, b)).
C4_CmpAgreesWithIntegers ==
    (call = "cmp" /\ pc = "done") =>
        /\ ord = IntCmp(IntOf(a), IntOf(b))
        /\ cmp(b, a) = Reverse(ord)
        /\ (ord = "Equal" <=> a = b)

C4_Witness ==
    /\ call = "cmp" /\ pc = "done"
    /\ ~a.positive /\ ~b.positive
    /\ Len(a.digits) = Len(b.digits)
    /\ Len(a.digits) > 1
    /\ ord = "Less"

\* C5: every Number returned by new, neg, add or sub, and every Number the
\* caller holds after any sequence of them, is in canonical form.
C5_CanonicalForm ==
    /\ IsNormalized(a)
    /\ IsNormalized(b)
    /\ (pc = "done" /\ call \in {"new", "neg", "add", "sub"} => IsNormalized(res))

C5_Witness ==
    /\ pc = "done" /\ call = "sub"
    /\ op = "borrowing_sub"
    /\ ~bigger.positive
    /\ Len(self.digits) > 1
    /\ Len(bigger.digits) > 1
    /\ res = Number(TRUE, <<0>>)

\* C6: raw pairs that denote the same integer are constructed to the
\* identical Number, and normalizing the constructed Number again returns it
\* unchanged.
C6_UniqueRepresentation ==
    (call = "new" /\ pc = "done") =>
        /\ \A p \in BOOLEAN, d \in RawDigits :
              IntOf(Number(p, d)) = IntOf(raw) => new(p, d) = res
        /\ normalize(res) = res

C6_Witness ==
    /\ call = "new" /\ pc = "done"
    /\ ~raw.positive
    /\ Len(raw.digits) > 1
    /\ raw.digits[Len(raw.digits)] = 0
    /\ raw # res

C8_AdditiveInverse ==
    (call = "add" /\ Returned /\ rhs = neg(self)) =>
        /\ pc = "done"
        /\ res = new(TRUE, <<0>>)

C8_Witness ==
    /\ call = "add" /\ pc = "done"
    /\ rhs = neg(self)
    /\ ~self.positive
    /\ Len(self.digits) = MaxLen
    /\ res = Number(TRUE, <<0>>)

\* C9: cmp_abs(a, b) is the comparison of |a| with |b| as integers, for
\* operands of any limb counts; so the operand add takes as the bigger one
\* has a magnitude at least that of the smaller one.
C9_CmpAbsComparesMagnitudes ==
    /\ (call = "cmp_abs" /\ pc = "done") =>
          ord = IntCmp(Mag(a.digits), Mag(b.digits))
    /\ (call \in {"add", "sub"} /\ pc = "loop" /\ i = 0) =>
          Mag(bigger.digits) >= Mag(smaller.digits)

\* C10: inside add's loop the working digit vector holds at most
\* max(len(a), len(b)) + 1 limbs, and no borrow is pending once the last
\* limb of the larger-magnitude operand has been processed.
C10_BoundedGrowth ==
    (pc = "loop") =>
        /\ Len(bigger.digits) <= Max(Len(self.digits), Len(rhs.digits)) + 1
        /\ ~(/\ op = "borrowing_sub"
             /\ carry
             /\ i >= Max(Len(self.digits), Len(rhs.digits)))

====
